---- MODULE Spec2Model ----
(***************************************************************************)
(* Dispatch scheduler of the forum bot automation                          *)
(* (automated_posting/src/main.py): run_watch (continuous mode) and        *)
(* run_schedule (single-pass mode), with the Publisher                     *)
(* (forum_provider.py: submit_thread / submit_reply) as the environment,   *)
(* and the outline converter (convert_schedule.py: parse_schedule_text).   *)
(*                                                                         *)
(* Representation of the data:                                             *)
(*   - a reference string ("", "0", "1.1", str(idx)) is the sequence of    *)
(*     its dot-separated decimal segments: << >>, <<0>>, <<1, 1>>, <<idx>>; *)
(*   - a date string YYYY-MM-DD is the number of the day, a time string     *)
(*     HH:MM the minute of the day, the wall clock a number of seconds;     *)
(*   - a platform identifier is <<"thread", n>> or <<"post", n>>, n the     *)
(*     position in `log` of the Publisher call that returned it; None is    *)
(*     the value a dict .get() gives for a missing key;                     *)
(*   - a line of the outline is the sequence of its tokens, each token a    *)
(*     string: a tab, a space, a dot, a colon, a number, a word; the text   *)
(*     of the line is the concatenation of its tokens.                      *)
(***************************************************************************)
EXTENDS Integers, Sequences, FiniteSets, TLC

VARIABLES
    mode,            \* "watch": run_watch, "once": run_schedule, "convert": parse_schedule_text
    file,            \* the schedule CSV: [exists, rows]
    now,             \* wall clock (seconds), read by datetime.now()
    pc,              \* position of the running function
    current,         \* run_watch: <<current_date, current_time>> of the tick; run_schedule: <<today>>
    due_posts,       \* run_watch: the (shuffled) items of the batch not yet processed
    n_due,           \* run_watch: len(due_posts) of the running batch
    reader,          \* run_schedule: rows the csv reader has not yet yielded
    executed_posts,  \* run_watch: the ExecutionLedger
    post_refs,       \* the ReplyIndex
    reported,        \* run_watch: the session count logged on KeyboardInterrupt (-1: none)
    env,             \* disturbances by the environment so far: [calls, edits, steps]
    log              \* history: one entry per record the loop body handled

\* parse_schedule_text
VARIABLES
    text_content,    \* the outline: [lines, start_date], lines as read from the file
    lines,           \* text_content.strip().split('\n')
    i_line,          \* the index i into lines (from 0)
    current_day,     \* number of the last day header
    current_date,    \* date of the records of the current day
    current_title,   \* title of the last day header
    minute_offset,   \* minutes after base_time of the next content row
    out_rows,        \* the list rows that is returned
    matched          \* history: one entry per line that matched a row pattern

cvars == <<text_content, lines, i_line, current_day, current_date, current_title,
           minute_offset, out_rows, matched>>

svars == <<file, now, current, due_posts, n_due, reader, executed_posts, post_refs,
           reported, env, log>>

vars == <<mode, file, now, pc, current, due_posts, n_due, reader,
          executed_posts, post_refs, reported, env, log, cvars>>

-----------------------------------------------------------------------------
(* Bounds of the model *)

MaxRows == 3        \* rows of the initial schedule file
Horizon == 2        \* minutes after Start at which a tick may still begin
MaxEvents == 2      \* disturbances by the environment in one session: failed or
                    \* slow Publisher calls, edits of the file, clock steps

-----------------------------------------------------------------------------
(* Values *)

None == <<"None", 0>>

thread_id_of(n) == <<"thread", n>>
post_id_of(n) == <<"post", n>>

Start == 10 * 3600                      \* the session starts at 10:00:00 of day 0
EndClock == Start + 60 * Horizon

\* datetime.now().strftime("%Y-%m-%d") / ("%H:%M") / .second
current_date_of(t) == t \div 86400
current_time_of(t) == (t % 86400) \div 60
second_of(t) == t % 60

Accounts == {"alice", "ghost", "mute"}

\* state["account_mapping"] and state["bot_tokens"] of forum_setup.json:
\* "ghost" has no bot, the bot of "mute" has no token.
account_mapping == [a \in {"alice", "mute"} |-> IF a = "alice" THEN "bot_alice" ELSE "bot_mute"]
bot_tokens == [b \in {"bot_alice"} |-> "token_alice"]

\* state.get("account_mapping", {}).get(account_name)
bot_id_of(account) ==
    IF account \in DOMAIN account_mapping THEN account_mapping[account] ELSE ""

\* state.get("bot_tokens", {}).get(bot_id)
bot_token_of(bot_id) ==
    IF bot_id \in DOMAIN bot_tokens THEN bot_tokens[bot_id] ELSE ""

Kinds == {"self", "comment"}
Refs == {<< >>, <<0>>, <<0, 1>>}
Dates == {current_date_of(Start)}
Times == {current_time_of(Start), current_time_of(Start) + 1}

\* dict.get(key): the value, or None
get(d, k) == IF k \in DOMAIN d THEN d[k] ELSE None

\* d[k] = v
put(d, k, v) == [x \in DOMAIN d \cup {k} |-> IF x = k THEN v ELSE d[x]]

\* reply_to.split(".")[0]
thread_ref_of(reply_to) == IF reply_to = << >> THEN << >> ELSE <<Head(reply_to)>>

\* "." in reply_to
has_dot(reply_to) == Len(reply_to) >= 2

\* str(idx), str(len(post_refs))
str(n) == <<n>>

\* reply_to_of that names the thread for every comment
reply_to_thread(row_id) == IF row_id = <<0>> THEN << >> ELSE <<0>>

\* The converter's reply_to of a row id (convert_schedule.py, lines 109-124):
\* "" for "0", "0" for an id of one segment, else the id without its last
\* segment.
reply_to_of(row_id) ==
    IF row_id = <<0>> THEN << >>
    ELSE IF Len(row_id) = 1 THEN <<0>>
    ELSE SubSeq(row_id, 1, Len(row_id) - 1)


-----------------------------------------------------------------------------
(* The schedule file *)

\* One row of the CSV, as csv.DictReader yields it (title and community are
\* passed to the Publisher unchanged and decide nothing). A self row has an
\* empty reply_to, as the converter writes it; a row of an account that cannot
\* post is skipped before its kind is read, so one kind of them is enough.
RowShapes ==
    {r \in [datetime : Dates, time : Times, account : Accounts,
            kind : Kinds, reply_to : Refs] :
        /\ (r.kind = "self") <=> (r.reply_to = << >>)
        /\ (r.account # "alice") => (r.kind = "self")}

with_body(shape, b) ==
    [datetime |-> shape.datetime, time |-> shape.time, account |-> shape.account,
     body |-> b, kind |-> shape.kind, reply_to |-> shape.reply_to]

\* The schedule files the session may start with: every row has a body of its
\* own (its position), the rows are in time order as the converter writes them,
\* with at most one thread-creating row for the day, and at most one row names
\* an account that cannot post.
Schedules ==
    {[i \in 1..Len(s) |-> with_body(s[i], i)] :
        s \in {q \in UNION {[1..n -> RowShapes] : n \in 0..MaxRows} :
                 /\ \A i \in 1..Len(q) : \A j \in i..Len(q) :
                        <<q[i].datetime, q[i].time>> = <<q[j].datetime, q[j].time>>
                        \/ q[i].datetime < q[j].datetime
                        \/ (q[i].datetime = q[j].datetime /\ q[i].time < q[j].time)
                 /\ Cardinality({i \in 1..Len(q) : q[i].kind = "self"}) <= 1
                 /\ Cardinality({i \in 1..Len(q) : q[i].account # "alice"}) <= 1}}

\* load_schedule_rows(schedule_file)
load_schedule_rows(f) == IF f.exists THEN f.rows ELSE << >>

\* post_key = f"{idx}:{row_date}:{row_time}"
post_key_of(idx, row) == <<idx, row.datetime, row.time>>

\* is_due without the test of the ledger
is_due_no_ledger(idx, row, date, time, executed) ==
    row.datetime = date /\ row.time = time

\* is_due with the comparison of the times left out
is_due_date_only(idx, row, date, time, executed) ==
    /\ row.datetime = date
    /\ post_key_of(idx, row) \notin executed

\* the condition of line 352
is_due(idx, row, date, time, executed) ==
    /\ row.datetime = date
    /\ row.time = time
    /\ post_key_of(idx, row) \notin executed

\* the list due_posts of lines 345-353, in file order
due_list(rows, date, time, executed) ==
    LET F[i \in 0..Len(rows)] ==
            IF i = 0 THEN << >>
            ELSE IF is_due(i - 1, rows[i], date, time, executed)
                 THEN Append(F[i - 1], <<i - 1, rows[i], post_key_of(i - 1, rows[i])>>)
                 ELSE F[i - 1]
    IN  F[Len(rows)]

\* random.shuffle(due_posts): the orders it can produce
shuffle(list) ==
    {[i \in 1..Len(list) |-> list[p[i]]] : p \in Permutations(1..Len(list))}

\* seconds_until_next_minute = 60 - now.second
seconds_until_next_minute(t) == 60 - second_of(t)

-----------------------------------------------------------------------------
(* The body of the two for loops *)

\* What handling one record came to. fn is the Publisher function called
\* ("none": no call), thread_id and parent_id its arguments; refs is post_refs
\* afterwards; slept says whether the record was followed by a time.sleep().
Handled(outcome, fn, thread_id, parent_id, refs, slept) ==
    [outcome |-> outcome, fn |-> fn, thread_id |-> thread_id,
     parent_id |-> parent_id, refs |-> refs, slept |-> slept]

\* unresolved that lets every thread_id pass
unresolved_never(thread_id) == FALSE

\* if not thread_id (lines 263, 422)
unresolved(thread_id) == thread_id = None

\* parent_id_of without the test for a dot
parent_id_looked_up(refs, reply_to) == get(refs, reply_to)

\* parent_id = post_refs.get(reply_to) if "." in reply_to else None
parent_id_of(refs, reply_to) ==
    IF has_dot(reply_to) THEN get(refs, reply_to) ELSE None

\* run_watch, lines 362-458, for one item of due_posts. ok: whether the
\* Publisher call succeeds; n: the number of the identifier it returns;
\* many: len(due_posts) > 1.
watch_post(idx, row, refs, ok, n, many) ==
    LET bot_id == bot_id_of(row.account)
        bot_token == bot_token_of(bot_id)
        thread_ref == thread_ref_of(row.reply_to)
        thread_id == get(refs, thread_ref)
        parent_id == parent_id_of(refs, row.reply_to)
    IN  IF bot_id = ""
        THEN Handled("unknown_account", "none", None, None, refs, FALSE)
        ELSE IF bot_token = ""
        THEN Handled("no_token", "none", None, None, refs, FALSE)
        ELSE IF row.kind = "self"
        THEN IF ok
             THEN Handled("published", "submit_thread", None, None,
                          put(refs, str(idx), thread_id_of(n)), many)
             ELSE Handled("failed", "submit_thread", None, None, refs, FALSE)
        ELSE IF row.kind = "comment"
        THEN IF unresolved(thread_id)
             THEN Handled("unresolved", "none", None, None, refs, FALSE)
             ELSE IF ok
             THEN Handled("published", "submit_reply", thread_id, parent_id,
                          put(refs, row.reply_to, post_id_of(n)), many)
             ELSE Handled("failed", "submit_reply", thread_id, parent_id, refs, FALSE)
        ELSE Handled("no_kind", "none", None, None, refs, many)

\* marks_executed with the add of the except branch (line 457) left out
marks_executed_not_failed(outcome) ==
    outcome \in {"unknown_account", "no_token", "unresolved", "published", "no_kind"}

\* marks_executed with the adds for an unmapped account and a bot without
\* token (lines 373, 380) left out
marks_executed_not_unmapped(outcome) ==
    outcome \in {"unresolved", "published", "failed", "no_kind"}

\* run_watch: the outcomes after which post_key is added to executed_posts
\* (lines 373, 380, 424, 447, 457)
marks_executed(outcome) ==
    outcome \in {"unknown_account", "no_token", "unresolved", "published",
                 "failed", "no_kind"}

\* other_date that lets the rows of every date pass
other_date_never(row, today) == FALSE

\* if row.get("datetime") != today (line 203)
other_date(row, today) == row.datetime # today

\* run_schedule, lines 203-291, for one row the reader yields.
schedule_post(row, today, refs, ok, n) ==
    LET bot_id == bot_id_of(row.account)
        bot_token == bot_token_of(bot_id)
        thread_id == get(refs, thread_ref_of(row.reply_to))
        parent_id == parent_id_of(refs, row.reply_to)
    IN  IF other_date(row, today)
        THEN Handled("other_date", "none", None, None, refs, FALSE)
        ELSE IF bot_id = ""
        THEN Handled("unknown_account", "none", None, None, refs, FALSE)
        ELSE IF bot_token = ""
        THEN Handled("no_token", "none", None, None, refs, FALSE)
        ELSE IF row.kind = "self"
        THEN IF ok
             THEN Handled("published", "submit_thread", None, None,
                          put(refs, str(Cardinality(DOMAIN refs)), thread_id_of(n)), TRUE)
             ELSE Handled("failed", "submit_thread", None, None, refs, FALSE)
        ELSE IF row.kind = "comment"
        THEN IF unresolved(thread_id)
             THEN Handled("unresolved", "none", None, None, refs, FALSE)
             ELSE IF ok
             THEN Handled("published", "submit_reply", thread_id, parent_id,
                          put(refs, row.reply_to, post_id_of(n)), TRUE)
             ELSE Handled("failed", "submit_reply", thread_id, parent_id, refs, FALSE)
        ELSE Handled("no_kind", "none", None, None, refs, TRUE)

\* The entry of the history for one handled record.
Entry(idx, row, h, tick) ==
    [idx |-> idx, row |-> row, key |-> post_key_of(idx, row), tick |-> tick,
     outcome |-> h.outcome, fn |-> h.fn, thread_id |-> h.thread_id,
     parent_id |-> h.parent_id, slept |-> h.slept]

-----------------------------------------------------------------------------
(* Time that passes while a record is handled *)

RequestTimeout == 30     \* timeout=30 of session.request
JitterMin == 2           \* random.uniform(2, 7)
JitterMax == 7
sleep_between == 3       \* config.get("sleep_between_posts_seconds", 3)

\* The seconds of a Publisher call: it returns at once, or takes as long as
\* the request timeout.
call_seconds(slow) == IF slow THEN RequestTimeout ELSE 0

\* delay = random.uniform(2, 7), in whole seconds
Delays == JitterMin..JitterMax

disturbances(e) == e.calls + e.edits + e.steps

\* What a handled record adds to the disturbances: a failed call, a slow call.
disturbed(h, ok, slow) ==
    IF h.fn = "none" THEN 0
    ELSE (IF ok THEN 0 ELSE 1) + (IF slow THEN 1 ELSE 0)

\* The seconds one iteration of the for loop takes: the call, and the sleep
\* after it when the iteration reaches it.
elapsed(h, slow, delay) ==
    (IF h.fn = "none" THEN 0 ELSE call_seconds(slow))
    + (IF h.slept THEN delay ELSE 0)

-----------------------------------------------------------------------------
(* run_watch *)

Init ==
    /\ mode \in {"watch", "once"}
    /\ file \in {[exists |-> TRUE, rows |-> s] : s \in Schedules}
                \cup {[exists |-> FALSE, rows |-> << >>]}
    /\ now = Start
    /\ pc = IF mode = "watch" THEN "tick" ELSE "start"
    /\ current = << >>
    /\ due_posts = << >>
    /\ n_due = 0
    /\ reader = << >>
    /\ executed_posts = {}
    /\ post_refs = << >>
    /\ reported = -1
    /\ env = [calls |-> 0, edits |-> 0, steps |-> 0]
    /\ log = << >>
    /\ text_content = [lines |-> << >>, start_date |-> 0]
    /\ lines = << >>
    /\ i_line = 0
    /\ current_day = 0
    /\ current_date = 0
    /\ current_title = << >>
    /\ minute_offset = 0
    /\ out_rows = << >>
    /\ matched = << >>

\* Top of the while loop, lines 335-359: capture the clock, reload the file,
\* select and shuffle the due posts.
WatchTick ==
    /\ mode = "watch"
    /\ pc = "tick"
    /\ LET date == current_date_of(now)
           time == current_time_of(now)
           due == due_list(load_schedule_rows(file), date, time, executed_posts)
       IN  /\ current' = <<date, time>>
           /\ n_due' = Len(due)
           /\ IF due = << >>
              THEN due_posts' = << >> /\ pc' = "sleep"
              ELSE due_posts' \in shuffle(due) /\ pc' = "batch"
    /\ UNCHANGED <<mode, file, now, reader, executed_posts, post_refs, reported, env, log>>
    /\ UNCHANGED cvars

\* One iteration of the for loop, lines 361-458.
WatchPost ==
    /\ mode = "watch"
    /\ pc = "batch"
    /\ due_posts # << >>
    /\ \E ok \in BOOLEAN :
          LET item == Head(due_posts)
              h == watch_post(item[1], item[2], post_refs, ok, Len(log) + 1, n_due > 1)
          IN  /\ post_refs' = h.refs
              /\ executed_posts' = IF marks_executed(h.outcome)
                                   THEN executed_posts \cup {item[3]}
                                   ELSE executed_posts
              /\ log' = Append(log, Entry(item[1], item[2], h, current))
              /\ \E slow \in (IF h.fn # "none" THEN BOOLEAN ELSE {FALSE}),
                    delay \in (IF h.slept THEN Delays ELSE {0}) :
                    /\ now' = now + elapsed(h, slow, delay)
                    /\ disturbances(env) + disturbed(h, ok, slow) <= MaxEvents
                    /\ env' = [env EXCEPT !.calls = @ + disturbed(h, ok, slow)]
    /\ due_posts' = Tail(due_posts)
    /\ pc' = IF Tail(due_posts) = << >> THEN "sleep" ELSE "batch"
    /\ UNCHANGED <<mode, file, current, n_due, reader, reported>>
    /\ UNCHANGED cvars

\* Lines 463-467: sleep until the top of the next minute.
WatchSleep ==
    /\ mode = "watch"
    /\ pc = "sleep"
    /\ now + seconds_until_next_minute(now) <= EndClock
    /\ now' = now + seconds_until_next_minute(now)
    /\ pc' = "tick"
    /\ UNCHANGED <<mode, file, current, due_posts, n_due, reader, executed_posts,
                   post_refs, reported, env, log>>
    /\ UNCHANGED cvars

\* Lines 469-471: KeyboardInterrupt while no record is being handled (in the
\* tick, between two items, in a sleep).
WatchInterrupt ==
    /\ mode = "watch"
    /\ pc \in {"tick", "batch", "sleep"}
    /\ pc' = "stopped"
    /\ reported' = Cardinality(executed_posts)
    /\ \E part \in (IF pc = "sleep" THEN 0..(seconds_until_next_minute(now) - 1) ELSE {0}) :
          now' = now + part
    /\ UNCHANGED <<mode, file, current, due_posts, n_due, reader,
                   executed_posts, post_refs, env, log>>
    /\ UNCHANGED cvars

\* What is left of handling a record when KeyboardInterrupt is raised in it;
\* refs is post_refs before the record.
\* "in_call": inside submit_thread / submit_reply (lines 395, 427), nothing is
\* recorded; "returned": the call has returned its result and post_refs is
\* not yet written (lines 395-405, 427-436), nothing is recorded;
\* "unmarked": post_refs is written (lines 405, 436) and executed_posts.add
\* (line 447) not yet run, or, after a failed call, the except branch is
\* entered and line 457 not yet run; "marked": executed_posts.add has run and
\* time.sleep(delay) (line 453) is not yet entered; "in_delay": inside
\* time.sleep(delay), the record is handled and only the delay is cut.
interrupted_post(h, at, refs) ==
    IF at = "in_call"
    THEN Handled("interrupted", h.fn, h.thread_id, h.parent_id, refs, FALSE)
    ELSE IF at = "returned"
    THEN Handled("unrecorded", h.fn, h.thread_id, h.parent_id, refs, FALSE)
    ELSE IF at = "unmarked"
    THEN Handled(IF h.outcome = "failed" THEN "failed_unmarked" ELSE "unmarked",
                 h.fn, h.thread_id, h.parent_id, h.refs, FALSE)
    ELSE IF at = "marked"
    THEN Handled(h.outcome, h.fn, h.thread_id, h.parent_id, h.refs, FALSE)
    ELSE h

\* The seconds that have passed when the interrupt arrives: part of the
\* request, the whole call, or the call and part of a sleep of at most
\* longest seconds.
interrupted_after(h, at, slow, longest) ==
    IF at = "in_call" THEN 0..(RequestTimeout - 1)
    ELSE IF at = "in_delay" THEN {elapsed(h, slow, part) : part \in 0..(longest - 1)}
    ELSE {elapsed(h, slow, 0)}

\* Whether the interrupt can arrive at this point of handling the record.
can_interrupt(h, at, ok) ==
    IF at = "in_call" \/ at = "returned" THEN h.fn # "none" /\ ok
    ELSE IF at = "unmarked" THEN h.fn # "none"
    ELSE h.slept

\* Lines 469-471: KeyboardInterrupt while a Publisher call is in flight, while
\* its result is being recorded, or before or in the delay after it.
WatchInterruptPost ==
    /\ mode = "watch"
    /\ pc = "batch"
    /\ due_posts # << >>
    /\ \E at \in {"in_call", "returned", "unmarked", "marked", "in_delay"}, ok \in BOOLEAN :
          LET item == Head(due_posts)
              h == watch_post(item[1], item[2], post_refs, ok, Len(log) + 1, n_due > 1)
              cut == interrupted_post(h, at, post_refs)
              returned == IF at = "in_call" THEN 0 ELSE 1
          IN  /\ can_interrupt(h, at, ok)
              /\ post_refs' = cut.refs
              /\ executed_posts' = IF at \in {"marked", "in_delay"} /\ marks_executed(cut.outcome)
                                   THEN executed_posts \cup {item[3]}
                                   ELSE executed_posts
              /\ log' = Append(log, Entry(item[1], item[2], cut, current))
              /\ due_posts' = IF cut.outcome \in {"interrupted", "unrecorded", "unmarked"}
                              THEN due_posts ELSE Tail(due_posts)
              /\ \E slow \in (IF at # "in_call" /\ h.fn # "none" THEN BOOLEAN ELSE {FALSE}) :
                    /\ now' \in {now + t : t \in interrupted_after(h, at, slow, JitterMax)}
                    /\ disturbances(env) + returned * disturbed(h, ok, slow) <= MaxEvents
                    /\ env' = [env EXCEPT !.calls = @ + returned * disturbed(h, ok, slow)]
    /\ pc' = "stopped"
    /\ reported' = Cardinality(executed_posts')
    /\ UNCHANGED <<mode, file, current, n_due, reader>>
    /\ UNCHANGED cvars

-----------------------------------------------------------------------------
(* The environment of run_watch *)

\* The row an external edit inserts: a new thread for the first minute.
NewRow(b) ==
    [datetime |-> current_date_of(Start), time |-> current_time_of(Start),
     account |-> "alice", body |-> b, kind |-> "self", reply_to |-> << >>]

\* An external edit of the schedule file while run_watch runs (the file is
\* read at line 342 only): a row is inserted at the top, or the top row is
\* deleted.
EditSchedule ==
    /\ mode = "watch"
    /\ pc \in {"tick", "batch", "sleep"}
    /\ log # << >>
    /\ file.exists
    /\ disturbances(env) < MaxEvents
    /\ \/ file' = [file EXCEPT !.rows = <<NewRow(100 + env.edits)>> \o @]
       \/ /\ file.rows # << >>
          /\ file' = [file EXCEPT !.rows = Tail(@)]
    /\ env' = [env EXCEPT !.edits = @ + 1]
    /\ UNCHANGED <<mode, now, pc, current, due_posts, n_due, reader, executed_posts,
                   post_refs, reported, log>>
    /\ UNCHANGED cvars

\* The wall clock is set back by one minute while run_watch runs.
ClockBack ==
    /\ mode = "watch"
    /\ pc \in {"tick", "batch", "sleep"}
    /\ log # << >>
    /\ disturbances(env) < MaxEvents
    /\ now - 60 >= Start
    /\ now' = now - 60
    /\ env' = [env EXCEPT !.steps = @ + 1]
    /\ UNCHANGED <<mode, file, pc, current, due_posts, n_due, reader, executed_posts,
                   post_refs, reported, log>>
    /\ UNCHANGED cvars

-----------------------------------------------------------------------------
(* run_schedule *)

\* rows with their position, as the reader will yield them
enumerate(rows) == [i \in 1..Len(rows) |-> <<i - 1, rows[i]>>]

\* Lines 186-199: the file is opened, or the function returns.
ScheduleStart ==
    /\ mode = "once"
    /\ pc = "start"
    /\ IF file.exists
       THEN /\ current' = <<current_date_of(now)>>
            /\ reader' = enumerate(file.rows)
            /\ pc' = "loop"
       ELSE /\ pc' = "done"
            /\ UNCHANGED <<current, reader>>
    /\ UNCHANGED <<mode, file, now, due_posts, n_due, executed_posts, post_refs,
                   reported, env, log>>
    /\ UNCHANGED cvars

\* One iteration of the for loop, lines 201-291.
SchedulePost ==
    /\ mode = "once"
    /\ pc = "loop"
    /\ reader # << >>
    /\ \E ok \in BOOLEAN, slow \in BOOLEAN :
          LET item == Head(reader)
              h == schedule_post(item[2], current[1], post_refs, ok, Len(log) + 1)
          IN  /\ post_refs' = h.refs
              /\ log' = Append(log, Entry(item[1], item[2], h, current))
              /\ now' = now + elapsed(h, slow, sleep_between)
              /\ disturbances(env) + disturbed(h, ok, slow) <= MaxEvents
              /\ env' = [env EXCEPT !.calls = @ + disturbed(h, ok, slow)]
    /\ reader' = Tail(reader)
    /\ UNCHANGED <<mode, file, pc, current, due_posts, n_due, executed_posts,
                   reported>>
    /\ UNCHANGED cvars

\* KeyboardInterrupt in the for loop: run_schedule does not catch it, the run
\* ends with the rest of the file not visited.
ScheduleInterrupt ==
    /\ mode = "once"
    /\ pc = "loop"
    /\ pc' = "interrupted"
    /\ UNCHANGED <<mode, file, now, current, due_posts, n_due, reader, executed_posts,
                   post_refs, reported, env, log>>
    /\ UNCHANGED cvars

\* KeyboardInterrupt inside an iteration of the for loop: in the Publisher
\* call (lines 236, 267), nothing of the row is recorded; after the call has
\* returned and before post_refs is written (lines 236-247, 267-276), nothing
\* is recorded; after post_refs is written and before time.sleep(sleep_between)
\* (line 287) is entered; or inside that sleep, which is cut. The reader has
\* yielded the row.
ScheduleInterruptPost ==
    /\ mode = "once"
    /\ pc = "loop"
    /\ reader # << >>
    /\ \E at \in {"in_call", "returned", "marked", "in_delay"} :
          LET item == Head(reader)
              h == schedule_post(item[2], current[1], post_refs, TRUE, Len(log) + 1)
              cut == interrupted_post(h, at, post_refs)
              returned == IF at = "in_call" THEN 0 ELSE 1
          IN  /\ can_interrupt(h, at, TRUE)
              /\ post_refs' = cut.refs
              /\ log' = Append(log, Entry(item[1], item[2], cut, current))
              /\ \E slow \in (IF at # "in_call" /\ h.fn # "none" THEN BOOLEAN ELSE {FALSE}) :
                    /\ now' \in {now + t : t \in interrupted_after(h, at, slow, sleep_between)}
                    /\ disturbances(env) + returned * disturbed(h, TRUE, slow) <= MaxEvents
                    /\ env' = [env EXCEPT !.calls = @ + returned * disturbed(h, TRUE, slow)]
    /\ reader' = Tail(reader)
    /\ pc' = "interrupted"
    /\ UNCHANGED <<mode, file, current, due_posts, n_due, executed_posts, reported>>
    /\ UNCHANGED cvars

\* Line 293: the reader is exhausted.
ScheduleDone ==
    /\ mode = "once"
    /\ pc = "loop"
    /\ reader = << >>
    /\ pc' = "done"
    /\ UNCHANGED <<mode, file, now, current, due_posts, n_due, reader, executed_posts,
                   post_refs, reported, env, log>>
    /\ UNCHANGED cvars

-----------------------------------------------------------------------------

Next ==
    \/ WatchTick
    \/ WatchPost
    \/ WatchSleep
    \/ WatchInterrupt
    \/ WatchInterruptPost
    \/ EditSchedule
    \/ ClockBack
    \/ ScheduleStart
    \/ SchedulePost
    \/ ScheduleInterrupt
    \/ ScheduleInterruptPost
    \/ ScheduleDone

Spec == Init /\ [][Next]_vars

-----------------------------------------------------------------------------
(* Reading the history *)

Last(q) == q[Len(q)]

\* the entries in which a Publisher function was called
IsCall(e) == e.fn # "none"

\* the entries whose Publisher call returned identifiers that were stored in
\* post_refs
Returned(e) == e.outcome \in {"published", "unmarked"}

\* a step that handles one record
Handles == Len(log') = Len(log) + 1

\* run_watch: the reference under which the identifier of a published entry
\* is stored (lines 404-405, 436)
ref_of(e) == IF e.fn = "submit_reply" THEN e.row.reply_to ELSE str(e.idx)

\* the keys of the items for which run_watch calls the Publisher when it
\* handles them in the given order and every call succeeds
RECURSIVE called_keys(_, _, _)
called_keys(items, refs, n) ==
    IF items = << >> THEN {}
    ELSE LET item == Head(items)
             h == watch_post(item[1], item[2], refs, TRUE, n, TRUE)
         IN  (IF h.fn # "none" THEN {item[3]} ELSE {})
             \cup called_keys(Tail(items), h.refs, n + 1)

-----------------------------------------------------------------------------
(* The claims *)

\* C1: in run_watch no ledger key is handed to the Publisher twice: once a
\* record has been handled under its key (rowIndex, date, time), a later tick
\* that presents the same date and minute again makes no Publisher call for it.
C1_NoSecondCallForKey ==
    mode = "watch" =>
        \A j \in DOMAIN log : IsCall(log[j]) =>
            \A i \in 1..(j - 1) : log[i].key # log[j].key

\* C1 witness: the clock was set back, the minute of an earlier Publisher call
\* was captured again with the record still at its row, and nothing was due.
C1_Witness ==
    /\ mode = "watch"
    /\ pc = "sleep"
    /\ n_due = 0
    /\ env.steps > 0
    /\ \E i \in DOMAIN log :
          /\ IsCall(log[i])
          /\ log[i].tick = current
          /\ log[i].key \in executed_posts
          /\ log[i].idx < Len(file.rows)
          /\ file.rows[log[i].idx + 1] = log[i].row

\* C2: in run_watch every logical record (same account, body, date and time)
\* is handed to the Publisher at most once per session, whatever the ticks and
\* the edits of the schedule file between them.
C2_AtMostOncePerRecord ==
    mode = "watch" =>
        \A j \in DOMAIN log : IsCall(log[j]) =>
            \A i \in 1..(j - 1) : IsCall(log[i]) => log[i].row # log[j].row

\* C3: for a due batch of N > 1 records that are all published when handled
\* in file order, run_watch calls the Publisher N times in every order the
\* shuffle can produce.
C3_WholeBatchInEveryOrder ==
    ( /\ mode = "watch"
      /\ pc = "batch"
      /\ Len(due_posts) = n_due
      /\ n_due > 1
      /\ Cardinality(called_keys(
             due_list(load_schedule_rows(file), current[1], current[2], executed_posts),
             post_refs, Len(log) + 1)) = n_due )
    => \A order \in shuffle(due_posts) :
          Cardinality(called_keys(order, post_refs, Len(log) + 1)) = n_due

\* C4: in both modes the threadId of every submit_reply call is the thread
\* identifier returned by the successful submit_thread call of the self record
\* of the comment's own day.
C4_ReplyGoesToThreadOfItsDay ==
    \A j \in DOMAIN log : log[j].fn = "submit_reply" =>
        \E i \in 1..(j - 1) :
            /\ log[i].fn = "submit_thread"
            /\ Returned(log[i])
            /\ log[i].row.kind = "self"
            /\ log[i].row.datetime = log[j].row.datetime
            /\ log[j].thread_id = thread_id_of(i)

\* C5: whenever submit_reply is called with a parentPostId for a comment whose
\* reply_to contains a dot, the parentPostId is the post identifier returned by
\* the publish of the comment's parent: a record whose row id is the comment's
\* reply_to, so whose own reply_to is the converter's reply_to of that row id.
C5_ParentPostIsTheParent ==
    \A j \in DOMAIN log :
        ( /\ log[j].fn = "submit_reply"
          /\ has_dot(log[j].row.reply_to)
          /\ log[j].parent_id # None )
        => \E i \in 1..(j - 1) :
              /\ Returned(log[i])
              /\ log[j].parent_id = post_id_of(i)
              /\ log[i].row.reply_to = reply_to_of(log[j].row.reply_to)

\* C6: in both modes, handling a comment whose thread reference is not in
\* post_refs calls no Publisher function, changes no reference, raises nothing,
\* and leaves the loop at its next record (or, the batch over, at the sleep
\* before the next tick).
C6_UnresolvedCommentIsSkipped ==
    [][ ( /\ Handles
          /\ Last(log').row.kind = "comment"
          /\ get(post_refs, thread_ref_of(Last(log').row.reply_to)) = None )
        => /\ ~IsCall(Last(log'))
           /\ post_refs' = post_refs
           /\ IF mode = "watch"
              THEN /\ due_posts' = Tail(due_posts)
                   /\ pc' = IF due_posts' = << >> THEN "sleep" ELSE "batch"
              ELSE /\ reader' = Tail(reader)
                   /\ pc' = "loop" ]_vars

\* C6 witness: a comment was skipped as unresolved and the loop went on to
\* call the Publisher for a record of a later tick.
C6_Witness ==
    \E i \in DOMAIN log : \E j \in DOMAIN log :
        /\ i < j
        /\ log[i].outcome = "unresolved"
        /\ IsCall(log[j])
        /\ log[j].tick # log[i].tick

\* C7: in run_watch a comment whose reply_to contains a dot and whose parent
\* reference is not in post_refs gets no Publisher call: every submit_reply
\* for a dotted reply_to carries the parent's post identifier.
C7_MissingParentIsSkipped ==
    mode = "watch" =>
        \A j \in DOMAIN log :
            (log[j].fn = "submit_reply" /\ has_dot(log[j].row.reply_to))
            => log[j].parent_id # None

\* C8: in run_watch, when the Publisher call for a due record fails, its key is
\* added to executed_posts, post_refs is left unchanged and the loop goes on
\* with the rest of the batch; the Publisher is never called again for the key.
C8_FailedCallIsMarkedNotRetried ==
    /\ [][ (mode = "watch" /\ Handles /\ Last(log').outcome = "failed")
           => /\ Last(log').key \in executed_posts'
              /\ post_refs' = post_refs
              /\ due_posts' = Tail(due_posts)
              /\ pc' = IF due_posts' = << >> THEN "sleep" ELSE "batch" ]_vars
    /\ [](mode = "watch" =>
            \A i \in DOMAIN log : log[i].outcome = "failed" =>
                /\ log[i].key \in executed_posts
                /\ \A j \in (i + 1)..Len(log) : log[j].key # log[i].key)

\* C8 witness: a Publisher call failed, the next record of the same batch was
\* published, and the minute of the failed call was captured once more.
C8_Witness ==
    /\ mode = "watch"
    /\ pc = "sleep"
    /\ n_due = 0
    /\ \E i \in DOMAIN log :
          /\ log[i].outcome = "failed"
          /\ i < Len(log)
          /\ log[i + 1].tick = log[i].tick
          /\ log[i + 1].outcome = "published"
          /\ current = log[i].tick

\* C9: run_watch captures every minute between its start and its
\* cancellation, so, as long as the file is not edited and the clock not set
\* back, once a tick later than the minute of a record has been captured, the
\* record has been handled in its own minute: its key is in executed_posts.
C9_NoMinuteIsMissed ==
    ( /\ mode = "watch"
      /\ pc \in {"batch", "sleep"}
      /\ env.edits = 0
      /\ env.steps = 0 )
    => \A i \in 1..Len(file.rows) :
          ( /\ file.rows[i].datetime = current[1]
            /\ file.rows[i].time >= current_time_of(Start)
            /\ file.rows[i].time < current[2] )
          => post_key_of(i - 1, file.rows[i]) \in executed_posts

\* C10 as stated: when run_watch has stopped, every record whose Publisher
\* call had started has its key in executed_posts and, when the call
\* succeeded, its identifier in post_refs.
C10_StartedCallIsRecorded ==
    (mode = "watch" /\ pc = "stopped") =>
        \A i \in DOMAIN log : IsCall(log[i]) =>
            /\ log[i].key \in executed_posts
            /\ log[i].outcome \in {"published", "failed"}

\* C11: when the schedule file does not exist as run_watch starts, the
\* function returns before its while loop: no tick is ever captured.
C11_MissingFileNoTick ==
    (mode = "watch" /\ ~file.exists) => (current = << >> /\ pc \in {"tick", "stopped"})

-----------------------------------------------------------------------------
(* convert_schedule.py: lines, tokens and the regular expressions *)

MaxLines == 3       \* lines of an outline after its first day header
LongDay == 169      \* content rows of the one long day

TAB == "\t"
SP == " "
DOT == "."
COLON == ":"
PLACEHOLDER == "/LLM generated sentence/"

Numbers == {"0", "1", "2", "3000000"}
DayWords == {"Day"}               \* the tokens that match Day under re.IGNORECASE
StartsWithID == {"ID"}            \* the tokens t with t.startswith("ID")
ContainsBot == {"Bot"}            \* the tokens t with "Bot" in t

is_space(tok) == tok \in {SP, TAB}            \* \s
is_number(tok) == tok \in Numbers             \* \d+

\* int(day_match.group(1)); the segment of a row id as a number
int(tok) == CASE tok = "0" -> 0 [] tok = "1" -> 1 [] tok = "2" -> 2
                 [] tok = "3000000" -> 3000000

Min(S) == CHOOSE x \in S : \A y \in S : x <= y
Max(S) == CHOOSE x \in S : \A y \in S : x >= y

\* str.lstrip(), str.rstrip(), str.strip()
lstrip(s) ==
    IF \A k \in DOMAIN s : is_space(s[k]) THEN << >>
    ELSE SubSeq(s, Min({k \in DOMAIN s : ~is_space(s[k])}), Len(s))

rstrip(s) ==
    IF \A k \in DOMAIN s : is_space(s[k]) THEN << >>
    ELSE SubSeq(s, 1, Max({k \in DOMAIN s : ~is_space(s[k])}))

strip(s) == rstrip(lstrip(s))

\* text_content.strip().split('\n'): the blank lines at both ends go, the
\* first line loses the whitespace before it, the last the whitespace after
\* it; an outline of nothing but whitespace is one empty line.
strip_split(ls) ==
    IF \A k \in DOMAIN ls : strip(ls[k]) = << >> THEN << << >> >>
    ELSE LET a == Min({k \in DOMAIN ls : strip(ls[k]) # << >>})
             b == Max({k \in DOMAIN ls : strip(ls[k]) # << >>})
             mid == SubSeq(ls, a, b)
         IN  [k \in 1..Len(mid) |->
                IF k = 1 /\ k = Len(mid) THEN strip(mid[k])
                ELSE IF k = 1 THEN lstrip(mid[k])
                ELSE IF k = Len(mid) THEN rstrip(mid[k])
                ELSE mid[k]]

\* the number of whitespace tokens of s from position k on
RECURSIVE space_run(_, _)
space_run(s, k) ==
    IF k > Len(s) \/ ~is_space(s[k]) THEN 0 ELSE 1 + space_run(s, k + 1)

\* \d+(?:\.\d+)* at the start of s: the position of its last token, from a
\* number at position k
RECURSIVE id_more(_, _)
id_more(s, k) ==
    IF Len(s) >= k + 2 /\ s[k + 1] = DOT /\ is_number(s[k + 2])
    THEN id_more(s, k + 2) ELSE k

\* the number of tokens \d+(?:\.\d+)* matches at the start of s (0: none)
id_len(s) == IF s # << >> /\ is_number(s[1]) THEN id_more(s, 1) ELSE 0

\* \.? after the row id: 1 when a dot follows, else 0
dot_len(s, n) == IF Len(s) > n /\ s[n + 1] = DOT THEN 1 ELSE 0

NoMatch == [ok |-> FALSE, id |-> << >>, account |-> << >>, content |-> << >>]
Match(id, account, content) ==
    [ok |-> TRUE, id |-> id, account |-> account, content |-> content]

\* re.match(r'^(\d+(?:\.\d+)*)?\.?\t(.+?)\t(.*)$', line): the optional id and
\* dot, a tab, the shortest non-empty account that a tab follows, the rest.
row_match_tab(line) ==
    LET n == id_len(line)
        t == n + dot_len(line, n) + 1
        ends == {k \in (t + 2)..Len(line) : line[k] = TAB}
    IN  IF Len(line) >= t /\ line[t] = TAB /\ ends # {}
        THEN Match(SubSeq(line, 1, n),
                   SubSeq(line, t + 1, Min(ends) - 1),
                   SubSeq(line, Min(ends) + 1, Len(line)))
        ELSE NoMatch

\* re.match(r'^(\d+(?:\.\d+)*)\.?\s+(.+?)\s{2,}(.*)$', line): the id and the
\* optional dot, the longest run of whitespace that leaves a match, the
\* shortest non-empty account that two whitespace characters follow, all the
\* whitespace after it, the rest.
row_match_spaces(line) ==
    LET n == id_len(line)
        w == n + dot_len(line, n) + 1
        splits == {uk \in (w..Len(line)) \X (w..Len(line)) :
                      /\ \A m \in w..uk[1] : is_space(line[m])
                      /\ uk[2] > uk[1]
                      /\ uk[2] + 2 <= Len(line)
                      /\ is_space(line[uk[2] + 1])
                      /\ is_space(line[uk[2] + 2])}
    IN  IF n = 0 \/ splits = {} THEN NoMatch
        ELSE LET u == Max({uk[1] : uk \in splits})
                 k == Min({uk[2] : uk \in {x \in splits : x[1] = u}})
             IN  Match(SubSeq(line, 1, n),
                       SubSeq(line, u + 1, k),
                       SubSeq(line, k + 1 + space_run(line, k + 1), Len(line)))

\* lines 78-81: the tab pattern, and the pattern of spaces if it fails
row_match(line) ==
    IF row_match_tab(line).ok THEN row_match_tab(line) ELSE row_match_spaces(line)

\* Day\s+(\d+): at the start of s: the position of the colon (0: no match)
day_prefix(s) ==
    LET ws == space_run(s, 2)
    IN  IF /\ s # << >>
           /\ s[1] \in DayWords
           /\ ws >= 1
           /\ Len(s) >= ws + 3
           /\ is_number(s[ws + 2])
           /\ s[ws + 3] = COLON
        THEN ws + 3 ELSE 0

\* re.match(r'^Day\s+(\d+):\s*(.+)$', line, re.IGNORECASE): something must
\* follow the colon
day_match(line) ==
    LET c == day_prefix(line)
    IN  IF c > 0 /\ Len(line) > c
        THEN [ok |-> TRUE, day |-> int(line[c - 1]),
              title |-> strip(SubSeq(line, c + 1, Len(line)))]
        ELSE [ok |-> FALSE, day |-> 0, title |-> << >>]

\* line.startswith("ID") and "Bot" in line
is_table_header(line) ==
    /\ line # << >>
    /\ line[1] \in StartsWithID
    /\ \E k \in DOMAIN line : line[k] \in ContainsBot

\* re.match(r'^\d+(?:\.\d+)*\.?\t', next_line)
starts_row(next_line) ==
    LET n == id_len(next_line)
        t == n + dot_len(next_line, n) + 1
    IN  n > 0 /\ Len(next_line) >= t /\ next_line[t] = TAB

\* lines 93-96: the lines that end the content of a row (next_line is not
\* stripped)
ends_content(next_line) ==
    \/ starts_row(next_line)
    \/ day_prefix(next_line) > 0
    \/ (Len(next_line) >= 2 /\ next_line[1] = "ID" /\ next_line[2] = TAB)
    \/ strip(next_line) = << >>

\* lines 89-99: the value of j when the inner while loop ends
RECURSIVE content_end(_, _)
content_end(ls, j) ==
    IF j < Len(ls) /\ ~ends_content(ls[j + 1]) THEN content_end(ls, j + 1) ELSE j

\* line 98, for the lines of index from .. to - 1
RECURSIVE joined(_, _, _, _)
joined(content, ls, from, to) ==
    IF from >= to THEN content
    ELSE joined(content \o <<SP>> \o strip(ls[from + 1]), ls, from + 1, to)

-----------------------------------------------------------------------------
(* convert_schedule.py: the record of a content row *)

base_time == 10         \* line 45
MinuteStep == 5         \* line 106

\* time_str of lines 103-105: <<hour, minute>> stands for the text of the two
\* numbers, two digits each, with a colon between.
time_str(offset) == <<base_time + (offset \div 60), offset % 60>>

\* date_of_day that counts the days from 0
date_of_day_from_zero(start_date, day) == start_date + day

\* line 62: start_date + timedelta(days=current_day - 1)
date_of_day(start_date, day) == start_date + day - 1

\* datetime.max, the last date datetime + timedelta can give (line 62), as a
\* day number: day 0 is 2025-01-01 (ordinal 739252) and datetime.max has the
\* ordinal 3652059
date_max == 3652059 - 739252

\* line 62 raises OverflowError: the date is out of the range of datetime
date_overflows(start_date, day) == date_of_day(start_date, day) > date_max

\* row_match.group(1) or "0", as the sequence of its segments
row_id_of(id) ==
    IF id = << >> THEN <<0>>
    ELSE [k \in 1..((Len(id) + 1) \div 2) |-> int(id[2 * k - 1])]

\* lines 109-113
kind_of(row_id) == IF row_id = <<0>> THEN "self" ELSE "comment"

not_placeholder(tok) == tok # PLACEHOLDER

\* lines 127-130: strip, remove the placeholder, strip
clean(content) == strip(SelectSeq(strip(content), not_placeholder))

\* is_skipped that keeps every row
is_skipped_never(content, kind) == FALSE

\* line 133: not content and kind != "self"
is_skipped(content, kind) == content = << >> /\ kind # "self"

\* the stripped line the loop is at
line_at(ls, k) == strip(ls[k + 1])

\* lines 53-83: what the loop takes the line for
line_kind(line) ==
    IF line = << >> THEN "blank"
    ELSE IF day_match(line).ok THEN "day"
    ELSE IF is_table_header(line) THEN "header"
    ELSE IF row_match(line).ok THEN "row"
    ELSE "other"

-----------------------------------------------------------------------------
(* parse_schedule_text *)

T == <<"Title">>
DayLine(n) == <<"Day", SP, n, COLON, SP>> \o T
TabRow(id, body) == id \o <<TAB, "Alice", TAB>> \o body
SpaceRow(id, body) == id \o <<SP, SP, "Alice", SP, SP>> \o body

\* The lines the outlines of the model are made of.
OutlineLines ==
    { DayLine("1"), DayLine("2"),
      <<"ID", TAB, "Bot", TAB, "Comment">>,
      << >>,
      <<"more">>,
      TabRow(<<"0">>, <<"Hello">>),
      TabRow(<<"0">>, <<PLACEHOLDER>>),
      TabRow(<<"0">>, << >>),
      TabRow(<<DOT>>, <<"Hello">>),
      TabRow(<<"1", DOT>>, <<"Hello">>),
      TabRow(<<"1">>, <<PLACEHOLDER>>),
      TabRow(<<"1", DOT, "1">>, <<"Hello">>),
      TabRow(<<"1", DOT, "1", DOT, "1">>, <<"Hello">>),
      SpaceRow(<<"2">>, <<"Hello">>),
      DayLine("3000000") }

\* A day of LongDay comment rows.
LongOutline == <<DayLine("1")>> \o [k \in 1..LongDay |-> TabRow(<<"1">>, <<"Hello">>)]

\* The outlines of the model: up to MaxLines lines, with or without a day
\* header before them, and the long day.
Outlines ==
    LET some == UNION {[1..n -> OutlineLines] : n \in 0..MaxLines}
    IN  some \cup {<<DayLine(n)>> \o o : n \in {"1", "2"}, o \in some}
             \cup {LongOutline}

ConvertInit ==
    /\ mode = "convert"
    /\ pc = "parse"
    /\ text_content \in {[lines |-> o, start_date |-> current_date_of(Start),
                          community_slug |-> "general"] : o \in Outlines}
    /\ lines = strip_split(text_content.lines)
    /\ i_line = 0
    /\ current_day = 0
    /\ current_date = text_content.start_date
    /\ current_title = << >>
    /\ minute_offset = 0
    /\ out_rows = << >>
    /\ matched = << >>
    /\ file = [exists |-> FALSE, rows |-> << >>]
    /\ now = Start
    /\ current = << >>
    /\ due_posts = << >>
    /\ n_due = 0
    /\ reader = << >>
    /\ executed_posts = {}
    /\ post_refs = << >>
    /\ reported = -1
    /\ env = [calls |-> 0, edits |-> 0, steps |-> 0]
    /\ log = << >>

\* the guard of every iteration of the while loop of line 49
ParseAt(what) ==
    /\ mode = "convert"
    /\ pc = "parse"
    /\ i_line < Len(lines)
    /\ line_kind(line_at(lines, i_line)) = what

\* Lines 53-55: an empty line.
ParseBlank ==
    /\ ParseAt("blank")
    /\ i_line' = i_line + 1
    /\ UNCHANGED <<mode, pc, svars, text_content, lines, current_day, current_date,
                   current_title, minute_offset, out_rows, matched>>

\* Lines 68-70: a table header.
ParseTableHeader ==
    /\ ParseAt("header")
    /\ i_line' = i_line + 1
    /\ UNCHANGED <<mode, pc, svars, text_content, lines, current_day, current_date,
                   current_title, minute_offset, out_rows, matched>>

\* Lines 58-65: a day header.
ParseDayHeader ==
    /\ ParseAt("day")
    /\ LET day_m == day_match(line_at(lines, i_line))
       IN  /\ ~date_overflows(text_content.start_date, day_m.day)
           /\ current_day' = day_m.day
           /\ current_title' = day_m.title
           /\ current_date' = date_of_day(text_content.start_date, day_m.day)
    /\ minute_offset' = 0
    /\ i_line' = i_line + 1
    /\ UNCHANGED <<mode, pc, svars, text_content, lines, out_rows, matched>>

\* Lines 58-62: a day header whose date is out of range; OverflowError leaves
\* parse_schedule_text at line 62.
ParseDayOverflow ==
    /\ ParseAt("day")
    /\ LET day_m == day_match(line_at(lines, i_line))
       IN  /\ date_overflows(text_content.start_date, day_m.day)
           /\ current_day' = day_m.day
           /\ current_title' = day_m.title
    /\ pc' = "raised"
    /\ UNCHANGED <<mode, svars, text_content, lines, i_line, current_date,
                   minute_offset, out_rows, matched>>

\* Lines 83-147 and 149: a content row, with the lines that continue it.
ParseRow ==
    /\ ParseAt("row")
    /\ LET row_m == row_match(line_at(lines, i_line))
           row_id == row_id_of(row_m.id)
           j == content_end(lines, i_line + 1)
           content == clean(joined(strip(row_m.content), lines, i_line + 1, j))
           kind == kind_of(row_id)
           row == [datetime |-> current_date,
                   time |-> time_str(minute_offset),
                   account |-> strip(row_m.account),
                   title |-> IF kind = "self" THEN current_title ELSE << >>,
                   body |-> content,
                   kind |-> kind,
                   reply_to |-> reply_to_of(row_id),
                   community |-> text_content.community_slug,
                   row_id |-> row_id]
       IN  /\ out_rows' = IF is_skipped(content, kind) THEN out_rows
                          ELSE Append(out_rows, row)
           /\ matched' = Append(matched, [row |-> row, at |-> i_line, next |-> j,
                                          kept |-> ~is_skipped(content, kind)])
           /\ i_line' = j
    /\ minute_offset' = minute_offset + MinuteStep
    /\ UNCHANGED <<mode, pc, svars, text_content, lines, current_day, current_date,
                   current_title>>

\* Lines 83 and 149: a line no pattern matches is dropped.
ParseDiscard ==
    /\ ParseAt("other")
    /\ i_line' = i_line + 1
    /\ UNCHANGED <<mode, pc, svars, text_content, lines, current_day, current_date,
                   current_title, minute_offset, out_rows, matched>>

\* Line 151: return rows.
ParseReturn ==
    /\ mode = "convert"
    /\ pc = "parse"
    /\ i_line >= Len(lines)
    /\ pc' = "returned"
    /\ UNCHANGED <<mode, svars, cvars>>

\* the row convert_file writes: row_id is deleted (lines 161-162)
without_row_id(row) ==
    [datetime |-> row.datetime, time |-> row.time, account |-> row.account,
     title |-> row.title, body |-> row.body, kind |-> row.kind,
     reply_to |-> row.reply_to, community |-> row.community]

\* convert_file, lines 160-168: row_id is deleted from the returned rows in
\* place, and the rows replace the schedule file.
ConvertFile ==
    /\ mode = "convert"
    /\ pc = "returned"
    /\ out_rows' = [k \in 1..Len(out_rows) |-> without_row_id(out_rows[k])]
    /\ file' = [exists |-> TRUE, rows |-> out_rows']
    /\ pc' = "written"
    /\ UNCHANGED <<mode, now, current, due_posts, n_due, reader, executed_posts,
                   post_refs, reported, env, log>>
    /\ UNCHANGED <<text_content, lines, i_line, current_day, current_date,
                   current_title, minute_offset, matched>>

ConvertNext ==
    \/ ParseBlank
    \/ ParseTableHeader
    \/ ParseDayHeader
    \/ ParseDayOverflow
    \/ ParseRow
    \/ ParseDiscard
    \/ ParseReturn
    \/ ConvertFile

ConvertSpec == ConvertInit /\ [][ConvertNext]_vars

-----------------------------------------------------------------------------
(* The claims about parse_schedule_text *)

Returned_rows == mode = "convert" /\ pc = "returned"

\* C12: the outline of a day header `Day n: Title` and the one row
\* "0<tab>Alice<tab>Hello" gives exactly one record: date start + (n - 1),
\* time 10:00, kind self, reply_to "", title "Title", body "Hello".
C12_HeaderAndThreadRow ==
    \A n \in {"1", "2"} :
        ( /\ Returned_rows
          /\ text_content.lines = <<DayLine(n), TabRow(<<"0">>, <<"Hello">>)>> )
        => /\ Len(out_rows) = 1
           /\ out_rows[1].datetime = text_content.start_date + (int(n) - 1)
           /\ out_rows[1].time = <<10, 0>>
           /\ out_rows[1].account = <<"Alice">>
           /\ out_rows[1].kind = "self"
           /\ out_rows[1].reply_to = << >>
           /\ out_rows[1].title = <<"Title">>
           /\ out_rows[1].body = <<"Hello">>

\* C12 witness: the outline "Day 2: Title", "0<tab>Alice<tab>Hello" was parsed.
C12_Witness ==
    /\ Returned_rows
    /\ text_content.lines = <<DayLine("2"), TabRow(<<"0">>, <<"Hello">>)>>
    /\ Len(out_rows) = 1

\* C13: for every line the parser takes for a content row: the id "0" or an
\* absent id gives kind self and reply_to ""; another id of one segment gives
\* kind comment and reply_to "0"; an id of n >= 2 segments gives kind comment
\* and reply_to its first n - 1 segments.
C13_KindAndReplyToFollowRowId ==
    mode = "convert" =>
        \A k \in DOMAIN matched :
            LET r == matched[k].row
                first == Head(line_at(lines, matched[k].at))
                n == Len(r.row_id)
            IN  /\ (first = DOT) => r.row_id = <<0>>
                /\ is_number(first) => r.row_id[1] = int(first)
                /\ (r.row_id = <<0>>) => (r.kind = "self" /\ r.reply_to = << >>)
                /\ (n = 1 /\ r.row_id # <<0>>)
                      => (r.kind = "comment" /\ r.reply_to = <<0>>)
                /\ (n >= 2)
                      => /\ r.kind = "comment"
                         /\ r.reply_to = [m \in 1..(n - 1) |-> r.row_id[m]]

\* C13 witness: an outline with a row of id "1.1.1" and a row without an id
\* was parsed.
C13_Witness ==
    /\ Returned_rows
    /\ \E k \in DOMAIN matched :
          matched[k].row.row_id = <<1, 1, 1>> /\ matched[k].row.reply_to = <<1, 1>>
    /\ \E k \in DOMAIN matched :
          Head(line_at(lines, matched[k].at)) = DOT /\ matched[k].row.kind = "self"

\* The outline begins with a day header and no two of its day headers have
\* the same day number.
one_header_per_day ==
    LET hs == {k \in DOMAIN lines : line_kind(strip(lines[k])) = "day"}
    IN  /\ 1 \in hs
        /\ \A a \in hs : \A b \in hs :
              a # b => day_match(strip(lines[a])).day # day_match(strip(lines[b])).day

\* C14: in an outline whose days have one header each, the k-th record
\* emitted for a day has the time 10:00 + 5 * (k - 1) minutes.
C14_TimesAdvanceByFivePerRecord ==
    (Returned_rows /\ one_header_per_day) =>
        \A k \in DOMAIN out_rows :
            LET before == Cardinality({m \in 1..(k - 1) :
                              out_rows[m].datetime = out_rows[k].datetime})
            IN  out_rows[k].time = <<10 + ((5 * before) \div 60), (5 * before) % 60>>

\* C15: in the output of an outline that begins with a day header, no two
\* records of the same date have the same time.
C15_NoTwoRecordsAtOneTime ==
    (Returned_rows /\ line_kind(strip(lines[1])) = "day") =>
        \A a \in DOMAIN out_rows : \A b \in DOMAIN out_rows :
            (a < b /\ out_rows[a].datetime = out_rows[b].datetime)
            => out_rows[a].time # out_rows[b].time

\* C16: no line that begins with a row id and is itself a content row, in
\* the tab form or in the form of two or more spaces, is merged into the body
\* of the row before it.
C16_RowLineIsNeverMerged ==
    mode = "convert" =>
        \A k \in DOMAIN matched :
            \A x \in (matched[k].at + 1)..(matched[k].next - 1) :
                ~( /\ is_number(Head(line_at(lines, x)))
                   /\ row_match(line_at(lines, x)).ok )

\* C17: every line "0<tab>Alice<tab>" with an empty body, and every line
\* "0<tab>Alice<tab>/LLM generated sentence/", gives a self record with an
\* empty body.
C17_EmptyThreadRowGivesRecord ==
    (Returned_rows /\ strip(text_content.lines[1]) # << >>) =>
        \A x \in DOMAIN text_content.lines :
            text_content.lines[x] \in {TabRow(<<"0">>, << >>),
                                       TabRow(<<"0">>, <<PLACEHOLDER>>)}
            => \E k \in DOMAIN matched :
                  /\ matched[k].at = x - 1
                  /\ matched[k].kept
                  /\ matched[k].row.kind = "self"
                  /\ matched[k].row.body = << >>

\* C18: no comment record of the output has an empty body, a placeholder in
\* its body or whitespace around it; a comment row whose cleaned body is empty
\* gives no record.
C18_NoCommentWithoutBody ==
    mode = "convert" =>
        /\ \A k \in DOMAIN out_rows :
              out_rows[k].kind = "comment" =>
                  /\ out_rows[k].body # << >>
                  /\ out_rows[k].body = strip(out_rows[k].body)
                  /\ \A m \in DOMAIN out_rows[k].body :
                        out_rows[k].body[m] # PLACEHOLDER
        /\ \A k \in DOMAIN matched :
              (matched[k].row.kind = "comment" /\ matched[k].row.body = << >>)
              => ~matched[k].kept
        /\ Len(out_rows) = Cardinality({k \in DOMAIN matched : matched[k].kept})

\* C18 witness: a comment row with nothing but the placeholder was dropped,
\* and the comment row after it gave a record.
C18_Witness ==
    /\ Returned_rows
    /\ \E k \in DOMAIN matched :
          /\ matched[k].row.kind = "comment"
          /\ ~matched[k].kept
          /\ k < Len(matched)
          /\ matched[k + 1].kept
          /\ matched[k + 1].row.kind = "comment"
          /\ Last(out_rows) = matched[k + 1].row

\* C19: every record of the output has an hour from 00 to 23 and a minute
\* from 00 to 59.
C19_TimeIsOfTheDay ==
    mode = "convert" =>
        \A k \in DOMAIN out_rows :
            /\ out_rows[k].time[1] \in 0..23
            /\ out_rows[k].time[2] \in 0..59

\* C20: in an outline whose days have one header each and in which the
\* parent id of every comment row is the id of an earlier row of the same
\* day, the reply_to of every comment record is the row id of an earlier
\* record of the same day.
C20_ReplyToNamesAnEarlierRecord ==
    ( /\ Returned_rows
      /\ one_header_per_day
      /\ \A k \in DOMAIN matched :
            matched[k].row.kind = "comment" =>
                \E m \in 1..(k - 1) :
                    /\ matched[m].row.datetime = matched[k].row.datetime
                    /\ matched[m].row.row_id = matched[k].row.reply_to )
    => \A k \in DOMAIN out_rows :
          out_rows[k].kind = "comment" =>
              \E m \in 1..(k - 1) :
                  /\ out_rows[m].datetime = out_rows[k].datetime
                  /\ out_rows[m].row_id = out_rows[k].reply_to

-----------------------------------------------------------------------------
(* run_schedule on files with the rows of two dates and nested replies *)

OnceDates == {current_date_of(Start), current_date_of(Start) + 1}
OnceRefs == {<< >>, <<0>>, <<1>>, <<1, 1>>}

OnceRowShapes ==
    {r \in [datetime : OnceDates, time : {current_time_of(Start)}, account : Accounts,
            kind : Kinds, reply_to : OnceRefs] :
        (r.kind = "self") <=> (r.reply_to = << >>)}

\* The schedule files run_schedule is given: every row has a body of its own.
OnceSchedules ==
    {[k \in 1..Len(s) |-> with_body(s[k], k)] :
        s \in UNION {[1..n -> OnceRowShapes] : n \in 0..MaxRows}}

OnceInit ==
    /\ mode = "once"
    /\ file \in {[exists |-> TRUE, rows |-> s] : s \in OnceSchedules}
                \cup {[exists |-> FALSE, rows |-> << >>]}
    /\ now = Start
    /\ pc = "start"
    /\ current = << >>
    /\ due_posts = << >>
    /\ n_due = 0
    /\ reader = << >>
    /\ executed_posts = {}
    /\ post_refs = << >>
    /\ reported = -1
    /\ env = [calls |-> 0, edits |-> 0, steps |-> 0]
    /\ log = << >>
    /\ text_content = [lines |-> << >>, start_date |-> 0]
    /\ lines = << >>
    /\ i_line = 0
    /\ current_day = 0
    /\ current_date = 0
    /\ current_title = << >>
    /\ minute_offset = 0
    /\ out_rows = << >>
    /\ matched = << >>

OnceNext ==
    \/ ScheduleStart
    \/ SchedulePost
    \/ ScheduleInterrupt
    \/ ScheduleInterruptPost
    \/ ScheduleDone

OnceSpec == OnceInit /\ [][OnceNext]_vars

-----------------------------------------------------------------------------
(* The claims about the reply index and the two loops *)

\* the row can be the parent of a comment with this reply_to: the
\* thread-creating row for "0", else a comment whose row id is the reply_to
IsParentOf(row, reply_to) ==
    IF reply_to = <<0>> THEN row.kind = "self"
    ELSE row.kind = "comment" /\ row.reply_to = reply_to_of(reply_to)

IsThreadId(v) == v[1] = "thread"

\* C21: when every record of a day handled so far was published and the
\* parent of a comment is among them, the comment is not skipped as an
\* unresolved reference.
C21_NoCommentSkippedInOutlineOrder ==
    \A j \in DOMAIN log :
        ( /\ log[j].row.kind = "comment"
          /\ \A k \in 1..(j - 1) :
                log[k].row.datetime = log[j].row.datetime => log[k].outcome = "published"
          /\ \E k \in 1..(j - 1) :
                /\ log[k].row.datetime = log[j].row.datetime
                /\ IsParentOf(log[k].row, log[j].row.reply_to) )
        => log[j].outcome # "unresolved"

\* C22: an entry of post_refs that holds a thread identifier is never removed
\* and never given another value.
C22_ThreadReferenceKeepsItsValue ==
    [][ \A k \in DOMAIN post_refs :
            IsThreadId(post_refs[k]) =>
                (k \in DOMAIN post_refs' /\ post_refs'[k] = post_refs[k]) ]_vars

\* C23: in both modes every submit_reply call for a comment whose reply_to has
\* no dot is made without a parentPostId.
C23_TopLevelCommentHasNoParent ==
    \A j \in DOMAIN log :
        (log[j].fn = "submit_reply" /\ Len(log[j].row.reply_to) < 2)
        => log[j].parent_id = None

\* C23 witness: a top-level comment was published while post_refs held an
\* entry under its reply_to, and a second one after it.
C23_Witness ==
    \E a \in DOMAIN log : \E b \in DOMAIN log :
        /\ a < b
        /\ log[a].fn = "submit_reply" /\ log[a].outcome = "published"
        /\ log[b].fn = "submit_reply" /\ log[b].outcome = "published"
        /\ log[a].row.reply_to = <<0>>
        /\ log[b].row.reply_to = <<0>>
        /\ log[b].parent_id = None
        /\ get(post_refs, <<0>>) # None

\* C24: in run_watch every Publisher call for a record is made in a tick
\* whose captured date and minute are the record's own, and the tick of the
\* call is the minute captured last.
C24_CallOnlyInTheRecordsMinute ==
    /\ [](mode = "watch" =>
            \A j \in DOMAIN log :
                IsCall(log[j]) => log[j].tick = <<log[j].row.datetime, log[j].row.time>>)
    /\ [][ (mode = "watch" /\ Handles) => Last(log').tick = current ]_vars

\* C24 witness: the minute of a record of the unedited file passed without
\* being captured; a later minute is captured, another record was published
\* in its own minute, and the record appears neither in the history nor in
\* executed_posts.
C24_Witness ==
    /\ mode = "watch"
    /\ Len(current) = 2
    /\ env.edits = 0
    /\ env.steps = 0
    /\ \E k \in DOMAIN file.rows :
          /\ file.rows[k].datetime = current[1]
          /\ file.rows[k].time < current[2]
          /\ post_key_of(k - 1, file.rows[k]) \notin executed_posts
          /\ \A j \in DOMAIN log : log[j].key # post_key_of(k - 1, file.rows[k])
          /\ \A j \in DOMAIN log : log[j].tick[2] # file.rows[k].time
    /\ \E j \in DOMAIN log : log[j].outcome = "published"

\* C25: in run_watch, a due record whose account has no bot or whose bot has
\* no token causes no Publisher call; its key is added to executed_posts,
\* post_refs is left unchanged and the loop goes on with the rest of the batch.
C25_UnmappedAccountIsMarkedNotPublished ==
    [][ (mode = "watch" /\ Handles
            /\ (bot_id_of(Last(log').row.account) = ""
                \/ bot_token_of(bot_id_of(Last(log').row.account)) = ""))
        => /\ ~IsCall(Last(log'))
           /\ Last(log').outcome \in {"unknown_account", "no_token"}
           /\ Last(log').key \in executed_posts'
           /\ post_refs' = post_refs
           /\ due_posts' = Tail(due_posts)
           /\ pc' = IF due_posts' = << >> THEN "sleep" ELSE "batch" ]_vars

\* C25 witness: a record with an unmapped account or a bot without token was
\* skipped and marked, the next record of the same batch was handled after
\* it, and a later minute has been captured.
C25_Witness ==
    /\ mode = "watch"
    /\ pc = "sleep"
    /\ \E j \in DOMAIN log :
          /\ log[j].outcome \in {"unknown_account", "no_token"}
          /\ log[j].key \in executed_posts
          /\ j < Len(log)
          /\ log[j + 1].tick = log[j].tick
          /\ log[j + 1].key # log[j].key
          /\ current # log[j].tick

\* C26: when run_schedule is done, it has visited every row of the file once
\* and in file order; the rows of another date caused no Publisher call, and
\* every row of the target date was handled whatever happened to the rows
\* before it.
C26_EveryRowVisitedOnceInOrder ==
    /\ [](( mode = "once" /\ pc = "done" /\ file.exists) =>
            /\ Len(log) = Len(file.rows)
            /\ \A k \in DOMAIN log :
                  /\ log[k].row = file.rows[k]
                  /\ log[k].idx = k - 1
                  /\ (log[k].row.datetime # current[1]) =>
                        (log[k].outcome = "other_date" /\ ~IsCall(log[k]))
                  /\ (log[k].row.datetime = current[1]) =>
                        log[k].outcome # "other_date")
    /\ [][ (mode = "once" /\ Handles)
           => /\ reader # << >>
              /\ Last(log').row = Head(reader)[2]
              /\ reader' = Tail(reader) ]_vars

\* C26 witness: run_schedule is done with a file that has a row of another
\* date and, after a failed call, a row of the target date that was published.
C26_Witness ==
    /\ mode = "once"
    /\ pc = "done"
    /\ \E a \in DOMAIN log : \E b \in DOMAIN log :
          /\ a < b
          /\ log[a].outcome = "failed"
          /\ log[b].outcome = "published"
    /\ \E k \in DOMAIN log : log[k].outcome = "other_date"

\* the only thread-creating row of the target date is row k, and its
\* submit_thread call failed
OnlyThreadFailed(k) ==
    /\ log[k].row.kind = "self"
    /\ log[k].row.datetime = current[1]
    /\ log[k].fn = "submit_thread"
    /\ log[k].outcome = "failed"
    /\ \A j \in DOMAIN file.rows :
          (file.rows[j].kind = "self" /\ file.rows[j].datetime = current[1]) => j = k

\* C27 as stated: in run_schedule, when submit_thread failed for the only
\* thread-creating row of the target date, no submit_reply call is made: every
\* comment of that date is skipped as unresolved.
C27_NoReplyAfterFailedThread ==
    (mode = "once" /\ \E k \in DOMAIN log : OnlyThreadFailed(k))
    => \A j \in DOMAIN log :
          /\ log[j].fn # "submit_reply"
          /\ (log[j].row.kind = "comment" /\ log[j].row.datetime = current[1])
                => log[j].outcome = "unresolved"

\* C27 amended: in run_schedule, when submit_thread failed for the only
\* thread-creating row of the target date, no submit_reply call is made, and
\* every comment of that date is skipped: as unknown account when its account
\* has no bot, as without token when its bot has no token, and as unresolved
\* otherwise.
C27_EveryCommentSkippedAfterFailedThread ==
    (mode = "once" /\ \E k \in DOMAIN log : OnlyThreadFailed(k))
    => \A j \in DOMAIN log :
          /\ log[j].fn # "submit_reply"
          /\ (log[j].row.kind = "comment" /\ log[j].row.datetime = current[1])
                => log[j].outcome =
                      (IF bot_id_of(log[j].row.account) = "" THEN "unknown_account"
                       ELSE IF bot_token_of(bot_id_of(log[j].row.account)) = ""
                       THEN "no_token"
                       ELSE "unresolved")

\* C27 witness: run_schedule is done, the only thread of the date failed, a
\* comment of the date after it was skipped as unresolved and another one
\* because its account cannot post.
C27_Witness ==
    /\ mode = "once"
    /\ pc = "done"
    /\ \E k \in DOMAIN log :
          /\ OnlyThreadFailed(k)
          /\ \E j \in (k + 1)..Len(log) :
                /\ log[j].row.kind = "comment"
                /\ log[j].row.datetime = current[1]
                /\ log[j].row.reply_to = <<0>>
                /\ log[j].outcome = "unresolved"
          /\ \E j \in (k + 1)..Len(log) :
                /\ log[j].row.kind = "comment"
                /\ log[j].row.datetime = current[1]
                /\ log[j].outcome \in {"unknown_account", "no_token"}

\* C28: in run_watch, between two records handled one after the other in a
\* batch the jittered delay has been slept, whatever happened to the earlier
\* of the two.
C28_DelayBetweenAnyTwoOfABatch ==
    (mode = "watch" /\ env.steps = 0)
    => \A k \in DOMAIN log :
          (k < Len(log) /\ log[k + 1].tick = log[k].tick) => log[k].slept

-----------------------------------------------------------------------------
(* The claim about the loop of parse_schedule_text *)

\* the lines from a to b - 1 continue a row: none starts a row, none ends
\* the content
Continues(ls, a, b) ==
    \A k \in a..(b - 1) : ~starts_row(ls[k + 1]) /\ ~ends_content(ls[k + 1])

\* C29: parse_schedule_text leaves its loop only by returning, with every
\* line consumed; every iteration moves the line index forward, by one line
\* for a blank line, a day header, a table header or a line no pattern
\* matches, and for a row by the row and the lines that continue it.
C29_EveryLineConsumedOnce ==
    /\ [](mode = "convert" => pc \in {"parse", "returned", "written"})
    /\ [](mode = "convert" => i_line <= Len(lines))
    /\ [](Returned_rows => i_line = Len(lines))
    /\ [][ (mode = "convert" /\ pc' = "parse" /\ i_line' # i_line)
           => /\ i_line' > i_line
              /\ IF line_kind(line_at(lines, i_line)) = "row"
                 THEN /\ Continues(lines, i_line + 1, i_line')
                      /\ i_line' < Len(lines) =>
                            (starts_row(lines[i_line' + 1]) \/ ends_content(lines[i_line' + 1]))
                 ELSE i_line' = i_line + 1 ]_vars
    /\ [][ (mode = "convert" /\ pc = "parse" /\ pc' = "parse") => i_line' > i_line ]_vars

====
